---- MODULE Spec2Model ----
(***************************************************************************)
(* State-machine model of the rice-pest detector GUI (src/app.py):         *)
(* the YOLODetector main window (UI thread, Qt event loop) and the         *)
(* VideoWorker QThread it starts for camera / video-file streaming.        *)
(*                                                                         *)
(* Threads.  Handlers of the main window run one at a time on the UI       *)
(* thread; a handler that blocks (QThread.wait, a model call) keeps the    *)
(* UI thread busy, which the variable ui records.  Every VideoWorker runs  *)
(* its run() on its own thread; its position is the field pc.  The signal  *)
(* frame_ready crosses from the worker thread to the UI thread as a queued *)
(* event: queue is the UI thread's FIFO of posted frame_ready events.      *)
(*                                                                         *)
(* Buttons.  start_detection / stop_detection are reached only through     *)
(* the clicked signal of startBtn / stopBtn (src/app.py:171-172, 277); a   *)
(* disabled QPushButton emits no clicked, so the enabled flags guard the   *)
(* handlers.                                                               *)
(*                                                                         *)
(* Exceptions.  No handler and no run() of src/app.py catches the          *)
(* exceptions of the streaming path, and the program installs no           *)
(* sys.excepthook: an exception that leaves a slot or QThread.run ends the *)
(* process (PyQt5 calls qFatal, which aborts).  app = "aborted" records    *)
(* it; nothing runs afterwards.                                            *)
(***************************************************************************)
EXTENDS Integers, Sequences, FiniteSets, TLC

\* ------------------------------------------------------------------ bounds
MaxFrames == 2      \* frames the sources deliver in total, over all runs
MaxModels == 1      \* successful load_model calls
MaxBoxes == 3       \* boxes the detection model reports for one image
MaxCalls == 2       \* model calls run_detection makes in one session

\* --------------------------------------------------------------- constants
NoModel == 0        \* self.model = None
NoWorker == 0       \* self.worker = None
conf_threshold == 30    \* conf=0.3, in percent

\* inputCombo indices
SrcCamera == 0
SrcVideo == 1
SrcImage == 2

\* self.file_path is "unset" (the attribute does not exist yet), "" (what a
\* cancelled file dialog returns) or "file" (a file the user chose).

\* What cv2.VideoCapture(source).isOpened() can answer for a source: the
\* camera (device 0) may be absent, a chosen file may or may not be a
\* readable video, "" never opens.
OpenOutcomes(source) ==
    CASE source = "camera" -> BOOLEAN
      [] source = "file"   -> BOOLEAN
      [] OTHER             -> {FALSE}

\* os.path.exists(self.file_path)
PathExists(path) == path = "file"

\* self.model.names: class index -> label
ModelNames == [c \in {0, 1} |-> IF c = 0 THEN "rice-bug" ELSE "stem-borer"]

\* The candidate boxes a frame can hold (class index, confidence in percent).
Box(c, p) == [cls |-> c, conf |-> p]
Scenes == { <<Box(0, 90), Box(0, 20)>>, <<Box(1, 80), Box(0, 60)>> }

NoFrame == [src |-> "none", id |-> 0, boxes |-> <<>>]

\* ------------------------------------------------------------------- state
VARIABLES
    app,            \* "running" | "aborted" | "closed": the process
    ui,             \* UI thread: "idle" | "stop_wait" | "close_wait" | "image_infer"
    model,          \* YOLODetector.model: NoModel or a model instance 1..MaxModels
    file_path,      \* YOLODetector.file_path
    inputCombo,     \* currentIndex of inputCombo
    startBtn,       \* startBtn.isEnabled()
    stopBtn,        \* stopBtn.isEnabled()
    status_label,   \* text of the status bar label
    message,        \* the last warning start_detection / process_single_image showed
    image_label,    \* the image on display
    stats_text,     \* the statistics on display
    worker,         \* YOLODetector.worker: NoWorker or the id of a VideoWorker
    workers,        \* the VideoWorker objects in existence, by object id
    queue,          \* posted, undelivered frame_ready events (FIFO)
    acquired,       \* frames read so far by all run loops
    delivered,      \* the (frame, stats) pairs display_image_and_stats received
    last_image      \* self.last_image: "unset" while the attribute does not exist

\* The recommendation window (src/推荐系统.py, SimplePesticideApp), a
\* program of its own with its own model and image.
VARIABLES
    rec_model,          \* SimplePesticideApp.model: NoModel or a loaded model
    current_img,        \* SimplePesticideApp.current_img (None, or an image)
    preview,            \* what image_label shows
    rec_status,         \* the latest status-bar message or error dialog
    select_image_btn,   \* select_image_btn.isEnabled()
    run_detection_btn,  \* run_detection_btn.isEnabled()
    pest_data,          \* SimplePesticideApp.pest_data
    area_text,          \* area_input.text()
    result_label,       \* what result_label shows
    model_calls,        \* calls of self.model(...) made by run_detection so far
    last_boxes          \* the labels of results[0].boxes of the latest such call

\* The frame statistics as a function of one frame's detections
\* (VideoWorker.extract_stats applied to a given result).
VARIABLES
    stats_in,           \* the detections of the frame, in order
    stats_out           \* <<>> or <<the statistics extract_stats returned>>

appVars == <<app, ui, model, file_path, inputCombo, startBtn, stopBtn,
             status_label, message, image_label, stats_text, worker, workers,
             queue, acquired, delivered>>

recVars == <<rec_model, current_img, preview, rec_status,
             select_image_btn, run_detection_btn, pest_data, area_text, result_label, model_calls, last_boxes>>

statsVars == <<stats_in, stats_out>>

mainVars == <<appVars, last_image>>

vars == <<mainVars, recVars, statsVars>>

uiVars == <<model, file_path, inputCombo, startBtn, stopBtn, status_label,
            message, image_label, stats_text>>

StatsPlaceholder == [kind |-> "placeholder"]

Init ==
    /\ app = "running"
    /\ ui = "idle"
    /\ model = NoModel
    /\ file_path = "unset"
    /\ inputCombo = SrcCamera
    /\ startBtn = TRUE
    /\ stopBtn = TRUE
    /\ status_label = "ready"
    /\ message = "none"
    /\ image_label = NoFrame
    /\ stats_text = StatsPlaceholder
    /\ worker = NoWorker
    /\ workers = <<>>
    /\ queue = <<>>
    /\ acquired = 0
    /\ delivered = <<>>
    /\ last_image = "unset"

\* self.current_img = None; an image is modelled by the class names of the
\* boxes the detection model finds in it, in the order it reports them
None == [loaded |-> FALSE, boxes |-> <<>>]

\* SimplePesticideApp.__init__ and init_ui: no model, no image, both
\* buttons disabled, the placeholder text
RecInit ==
    /\ rec_model = NoModel
    /\ current_img = None
    /\ preview = [kind |-> "placeholder", boxes |-> <<>>]
    /\ rec_status = "none"
    /\ select_image_btn = FALSE
    /\ run_detection_btn = FALSE
    /\ pest_data = <<>>
    /\ area_text = <<>>
    /\ result_label = [kind |-> "placeholder", lines |-> <<>>]
    /\ model_calls = 0
    /\ last_boxes = <<>>

\* no frame has been handed to extract_stats
StatsIdle ==
    /\ stats_in = <<>>
    /\ stats_out = <<>>

WorkerIds == DOMAIN workers

\* ------------------------------------------------------ pure computations

\* counts[name] = counts.get(name, 0) + 1
CountsPut_reset(counts, name) ==
    [l \in DOMAIN counts \cup {name} |-> IF l = name THEN 1 ELSE counts[l]]

CountsPut(counts, name) ==
    [l \in DOMAIN counts \cup {name} |->
        IF l = name
        THEN (IF name \in DOMAIN counts THEN counts[name] ELSE 0) + 1
        ELSE counts[l]]

\* the for loop of extract_stats over result.boxes
RECURSIVE StatsLoop(_, _)
StatsLoop(boxes, acc) ==
    IF boxes = <<>> THEN acc
    ELSE StatsLoop(Tail(boxes),
                   [counts |-> CountsPut(acc.counts, ModelNames[Head(boxes).cls]),
                    total_conf |-> acc.total_conf + Head(boxes).conf])

\* sum(counts.values())
RECURSIVE SumValues(_)
SumValues(counts) ==
    IF DOMAIN counts = {} THEN 0
    ELSE LET k == CHOOSE l \in DOMAIN counts : TRUE
         IN counts[k] + SumValues([l \in DOMAIN counts \ {k} |-> counts[l]])

\* avg_confidence is kept as the exact quotient <<numerator, denominator>>.
extract_stats(result) ==
    LET acc == StatsLoop(result.boxes, [counts |-> <<>>, total_conf |-> 0])
    IN [total_objects |-> SumValues(acc.counts),
        class_distribution |-> acc.counts,
        avg_confidence |-> IF Len(result.boxes) > 0
                           THEN <<acc.total_conf, Len(result.boxes)>>
                           ELSE <<0, 1>>,
        fps |-> 0]

\* self.model(frame, conf=...): the boxes at or above the threshold
ModelCall(frame, conf) ==
    [src |-> frame.src, id |-> frame.id,
     boxes |-> SelectSeq(frame.boxes, LAMBDA b : b.conf >= conf)]

\* results[0].plot(): the frame with the result's boxes drawn on it
Plot(result) == [src |-> result.src, id |-> result.id, boxes |-> result.boxes]

\* update_stats: only a dict is formatted and shown
StatsText(stats) ==
    [kind |-> "stats",
     total_objects |-> stats.total_objects,
     class_distribution |-> stats.class_distribution,
     avg_confidence |-> stats.avg_confidence]

\* ------------------------------------------------------------ VideoWorker

\* VideoWorker.__init__.  cap is "none" (self.cap = None), "open",
\* "unopened" (a VideoCapture that is not opened) or "released"; opened
\* keeps what isOpened() answered after line 28; lastRead keeps how the last
\* cap.read() ended; frame is the local of run() during the model call.
NewWorker(m, source) ==
    [model |-> m, video_source |-> source, conf |-> conf_threshold,
     running |-> TRUE, cap |-> "none", opened |-> FALSE, pc |-> "start",
     frame |-> NoFrame, lastRead |-> "none"]

Alive == app = "running"

\* run, line 28: self.cap = cv2.VideoCapture(self.video_source)
run_open(w) ==
    /\ Alive
    /\ workers[w].pc = "start"
    /\ \E ok \in OpenOutcomes(workers[w].video_source) :
          workers' = [workers EXCEPT ![w].cap = IF ok THEN "open" ELSE "unopened",
                                     ![w].opened = ok,
                                     ![w].pc = "loop"]
    /\ UNCHANGED <<app, ui, uiVars, worker, queue, acquired, delivered>>

\* run, line 29: while self.running and self.cap.isOpened()
LoopCond(w) == workers[w].running /\ workers[w].cap = "open"

run_loop(w) ==
    /\ Alive
    /\ workers[w].pc = "loop"
    /\ workers' = [workers EXCEPT ![w].pc = IF LoopCond(w) THEN "read" ELSE "release"]
    /\ UNCHANGED <<app, ui, uiVars, worker, queue, acquired, delivered>>

\* run, lines 30-33: cap.read() returns.  ret is True with a frame; it is
\* False both when the source is exhausted ("eos") and when a frame cannot be
\* decoded ("corrupt"): the code sees only ret.
ReadRet(outcome) == outcome = "frame"

run_read(w) ==
    /\ Alive
    /\ workers[w].pc = "read"
    /\ \/ /\ acquired < MaxFrames
          /\ ReadRet("frame")
          /\ \E scene \in Scenes :
                workers' = [workers EXCEPT
                              ![w].frame = [src |-> "stream", id |-> acquired + 1,
                                            boxes |-> scene],
                              ![w].lastRead = "frame",
                              ![w].pc = "infer"]
          /\ acquired' = acquired + 1
       \/ /\ \E outcome \in {"corrupt", "eos"} :
                /\ ~ReadRet(outcome)
                /\ workers' = [workers EXCEPT ![w].running = FALSE,
                                              ![w].lastRead = outcome,
                                              ![w].pc = "release"]
          /\ UNCHANGED acquired
    /\ UNCHANGED <<app, ui, uiVars, worker, queue, delivered>>

emit_front(q, e) == <<e>> \o q

\* frame_ready.emit: a queued connection posts the event behind the pending ones
emit(q, e) == Append(q, e)

\* run, lines 35-38: the model call returns; plot, extract_stats, emit.
\* Nothing catches an exception of the model call: it leaves run() before
\* line 40 and the process aborts.
run_infer(w) ==
    /\ Alive
    /\ workers[w].pc = "infer"
    /\ \/ /\ LET results == ModelCall(workers[w].frame, workers[w].conf)
                 annotated_frame == Plot(results)
                 stats == extract_stats(results)
             IN queue' = emit(queue, [frame |-> annotated_frame, stats |-> stats])
          /\ workers' = [workers EXCEPT ![w].pc = "loop", ![w].frame = NoFrame]
          /\ UNCHANGED app
       \/ /\ workers' = [workers EXCEPT ![w].pc = "raised"]
          /\ app' = "aborted"
          /\ UNCHANGED queue
    /\ UNCHANGED <<ui, uiVars, worker, acquired, delivered>>

\* run, line 40: self.cap.release(); run returns and the thread finishes
run_release_skipped(w) ==
    /\ Alive
    /\ workers[w].pc = "release"
    /\ workers' = [workers EXCEPT ![w].pc = "done"]
    /\ UNCHANGED <<app, ui, uiVars, worker, queue, acquired, delivered>>

run_release(w) ==
    /\ Alive
    /\ workers[w].pc = "release"
    /\ workers' = [workers EXCEPT ![w].cap = "released", ![w].pc = "done"]
    /\ UNCHANGED <<app, ui, uiVars, worker, queue, acquired, delivered>>

VideoWorker_stop_release(w) ==
    [workers EXCEPT ![w].running = FALSE,
                    ![w].cap = IF @ = "none" THEN "none" ELSE "released"]

\* VideoWorker.stop, line 43: self.running = False
VideoWorker_stop(w) == [workers EXCEPT ![w].running = FALSE]

QThread_wait_nowait(w) == TRUE

\* VideoWorker.stop, line 44: self.wait() returns once run() has returned
QThread_wait(w) == workers[w].pc = "done"

\* ----------------------------------------------------------- YOLODetector

UiReady == Alive /\ ui = "idle"

\* load_model: YOLO(file) succeeds, or it raises and an except clause
\* reports it, leaving self.model as it was (a cancelled dialog changes
\* nothing but an information box).
load_model ==
    /\ UiReady
    /\ \/ /\ model < MaxModels
          /\ model' = model + 1
          /\ status_label' = "model_loaded"
       \/ /\ status_label' = "model_load_failed"
          /\ UNCHANGED model
    /\ UNCHANGED <<app, ui, file_path, inputCombo, startBtn, stopBtn, message,
                   image_label, stats_text, worker, workers, queue,
                   acquired, delivered>>

\* the user picks another entry of inputCombo (no handler is connected)
select_source(i) ==
    /\ UiReady
    /\ i # inputCombo
    /\ inputCombo' = i
    /\ UNCHANGED <<app, ui, model, file_path, startBtn, stopBtn, status_label,
                   message, image_label, stats_text, worker, workers, queue, acquired, delivered>>

\* select_input_file: a dialog for index 1 or 2 (nothing happens for the
\* camera); a cancelled dialog stores "".
select_input_file ==
    /\ UiReady
    /\ inputCombo \in {SrcVideo, SrcImage}
    /\ file_path' \in {"", "file"}
    /\ UNCHANGED <<app, ui, model, inputCombo, startBtn, stopBtn, status_label,
                   message, image_label, stats_text, worker, workers, queue, acquired, delivered>>

\* the identity of a new object: the smallest id no existing VideoWorker has
\* (the id of a collected object is used again)
NewId ==
    CHOOSE i \in 1..(Cardinality(WorkerIds) + 1) :
        i \notin WorkerIds /\ \A j \in 1..(i - 1) : j \in WorkerIds

\* line 374: a new VideoWorker object comes into existence
AddWorker(id, w) == [i \in DOMAIN workers \cup {id} |-> IF i = id THEN w ELSE workers[i]]

\* self.worker = None drops the only reference to the VideoWorker, whose
\* thread has finished; the object is collected
DropWorker(id) ==
    IF workers[id].pc = "done"
    THEN [i \in DOMAIN workers \ {id} |-> workers[i]]
    ELSE workers

ModelLoaded_unchecked == TRUE

\* start_detection, line 359: if not self.model
ModelLoaded == model # NoModel

startBtn_on_start_kept == TRUE

\* start_detection, line 368: startBtn.setEnabled(False)
startBtn_on_start == FALSE

\* start_detection, lines 359-361: no model
start_no_model ==
    /\ ~ModelLoaded
    /\ message' = "no_model"
    /\ UNCHANGED <<app, ui, startBtn, stopBtn, status_label, worker, workers>>

\* start_detection, lines 363-366 with process_single_image, lines 379-384:
\* the file check, then imread and the model call, which occupies the UI thread
start_single_image ==
    /\ ModelLoaded
    /\ inputCombo = SrcImage
    /\ IF file_path = "unset" \/ ~PathExists(file_path)
       THEN message' = "invalid_image" /\ UNCHANGED ui
       ELSE ui' = "image_infer" /\ UNCHANGED message
    /\ UNCHANGED <<app, startBtn, stopBtn, status_label, worker, workers>>

\* start_detection, lines 368-376: the streaming branch.  In video mode
\* self.file_path is read at line 373; before any file dialog the attribute
\* does not exist and the AttributeError leaves the slot.
start_streaming ==
    /\ ModelLoaded
    /\ inputCombo # SrcImage
    /\ startBtn' = startBtn_on_start
    /\ stopBtn' = TRUE
    /\ status_label' = "detecting"
    /\ IF inputCombo = SrcVideo /\ file_path = "unset"
       THEN /\ app' = "aborted"
            /\ UNCHANGED <<worker, workers>>
       ELSE /\ workers' = AddWorker(NewId,
                   NewWorker(model, IF inputCombo = SrcCamera THEN "camera" ELSE file_path))
            /\ worker' = NewId
            /\ UNCHANGED app
    /\ UNCHANGED <<ui, message>>

start_detection ==
    /\ UiReady
    /\ startBtn
    /\ \/ start_no_model
       \/ start_single_image
       \/ start_streaming
    /\ UNCHANGED <<model, file_path, inputCombo, image_label, stats_text,
                   queue, acquired, delivered>>

\* process_single_image, lines 384-387: the model call returns (or raises and
\* leaves the slot); display_image; update_stats(results[0]) is handed a
\* Results object, not a dict, and shows nothing.
process_single_image_done ==
    /\ Alive
    /\ ui = "image_infer"
    /\ \/ \E scene \in Scenes :
             LET img == [src |-> "file", id |-> 0, boxes |-> scene]
                 results == ModelCall(img, conf_threshold)
             IN /\ image_label' = Plot(results)
                /\ ui' = "idle"
                /\ UNCHANGED app
       \/ /\ app' = "aborted"
          /\ UNCHANGED <<ui, image_label>>
    /\ UNCHANGED <<model, file_path, inputCombo, startBtn, stopBtn, status_label,
                   message, stats_text, worker, workers, queue, acquired,
                   delivered>>

\* display_image_and_stats: the slot of frame_ready, run on the UI thread for
\* the oldest posted event; stats is a dict, so update_stats shows it
display_image_and_stats ==
    /\ UiReady
    /\ queue # <<>>
    /\ image_label' = Head(queue).frame
    /\ stats_text' = StatsText(Head(queue).stats)
    /\ delivered' = Append(delivered, Head(queue))
    /\ queue' = Tail(queue)
    /\ UNCHANGED <<app, ui, model, file_path, inputCombo, startBtn, stopBtn,
                   status_label, message, worker, workers, acquired>>

\* stop_detection, lines 414-416
stop_finish ==
    /\ startBtn' = TRUE
    /\ stopBtn' = FALSE
    /\ status_label' = "stopped"

\* stop_detection, lines 411-412: with a worker, VideoWorker.stop clears the
\* flag and blocks the UI thread in wait(); without one, lines 414-416 run
stop_detection ==
    /\ UiReady
    /\ stopBtn
    /\ IF worker # NoWorker
       THEN /\ workers' = VideoWorker_stop(worker)
            /\ ui' = "stop_wait"
            /\ UNCHANGED <<startBtn, stopBtn, status_label>>
       ELSE /\ stop_finish
            /\ UNCHANGED <<workers, ui>>
    /\ UNCHANGED <<app, model, file_path, inputCombo, message, image_label,
                   stats_text, worker, queue, acquired, delivered>>

\* stop_detection, lines 412-416: wait() returns, self.worker = None
stop_return ==
    /\ Alive
    /\ ui = "stop_wait"
    /\ QThread_wait(worker)
    /\ worker' = NoWorker
    /\ workers' = DropWorker(worker)
    /\ stop_finish
    /\ ui' = "idle"
    /\ UNCHANGED <<app, model, file_path, inputCombo, message, image_label,
                   stats_text, queue, acquired, delivered>>

\* closeEvent, lines 475-477: stop the worker if there is one, accept
closeEvent ==
    /\ UiReady
    /\ IF worker # NoWorker
       THEN /\ workers' = VideoWorker_stop(worker)
            /\ ui' = "close_wait"
            /\ UNCHANGED app
       ELSE /\ app' = "closed"
            /\ UNCHANGED <<workers, ui>>
    /\ UNCHANGED <<uiVars, worker, queue, acquired, delivered>>

close_return ==
    /\ Alive
    /\ ui = "close_wait"
    /\ QThread_wait(worker)
    /\ app' = "closed"
    /\ UNCHANGED <<ui, uiVars, worker, workers, queue, acquired,
                   delivered>>

\* save_result (lines 418-431), the save dialog answered with a file name:
\* without the attribute last_image the warning is shown and nothing is
\* written; with it cv2.imwrite writes self.last_image
save_result ==
    /\ UiReady
    /\ message' = IF last_image = "unset" THEN "nothing_to_save" ELSE "saved"
    /\ UNCHANGED <<app, ui, model, file_path, inputCombo, startBtn, stopBtn,
                   status_label, image_label, stats_text, worker, workers,
                   queue, acquired, delivered, last_image>>

\* ------------------------------------------------------------ specification

WorkerStep ==
    \/ \E w \in WorkerIds : run_open(w)
    \/ \E w \in WorkerIds : run_loop(w)
    \/ \E w \in WorkerIds : run_read(w)
    \/ \E w \in WorkerIds : run_infer(w)
    \/ \E w \in WorkerIds : run_release(w)

\* what the program does without the user: the worker threads and the UI
\* thread finishing what it is blocked in or has queued
SystemStep ==
    \/ WorkerStep
    \/ display_image_and_stats
    \/ process_single_image_done
    \/ stop_return
    \/ close_return

UserStep ==
    \/ load_model
    \/ \E i \in {SrcCamera, SrcVideo, SrcImage} : select_source(i)
    \/ select_input_file
    \/ start_detection
    \/ stop_detection
    \/ closeEvent
    \/ save_result

\* The main window runs alone: the other program is not started.
Next ==
    \/ (\E w \in WorkerIds : run_open(w)) /\ UNCHANGED <<last_image, recVars, statsVars>>
    \/ (\E w \in WorkerIds : run_loop(w)) /\ UNCHANGED <<last_image, recVars, statsVars>>
    \/ (\E w \in WorkerIds : run_read(w)) /\ UNCHANGED <<last_image, recVars, statsVars>>
    \/ (\E w \in WorkerIds : run_infer(w)) /\ UNCHANGED <<last_image, recVars, statsVars>>
    \/ (\E w \in WorkerIds : run_release(w)) /\ UNCHANGED <<last_image, recVars, statsVars>>
    \/ display_image_and_stats /\ UNCHANGED <<last_image, recVars, statsVars>>
    \/ process_single_image_done /\ UNCHANGED <<last_image, recVars, statsVars>>
    \/ stop_return /\ UNCHANGED <<last_image, recVars, statsVars>>
    \/ close_return /\ UNCHANGED <<last_image, recVars, statsVars>>
    \/ load_model /\ UNCHANGED <<last_image, recVars, statsVars>>
    \/ (\E i \in {SrcCamera, SrcVideo, SrcImage} : select_source(i))
          /\ UNCHANGED <<last_image, recVars, statsVars>>
    \/ select_input_file /\ UNCHANGED <<last_image, recVars, statsVars>>
    \/ start_detection /\ UNCHANGED <<last_image, recVars, statsVars>>
    \/ stop_detection /\ UNCHANGED <<last_image, recVars, statsVars>>
    \/ closeEvent /\ UNCHANGED <<last_image, recVars, statsVars>>
    \/ save_result /\ UNCHANGED <<recVars, statsVars>>

\* both windows as constructed, no frame handed to extract_stats
Start == Init /\ RecInit /\ StatsIdle

Spec == Start /\ [][Next]_vars

\* The threads are scheduled and the calls they make return: a worker
\* thread that can take its next step of run() takes it, and a UI thread
\* blocked in wait() resumes once the worker thread has finished.
Progress == SystemStep /\ UNCHANGED <<last_image, recVars, statsVars>>

FairSpec == Start /\ [][Next]_vars /\ WF_vars(Progress)

\* ------------------------------------------- SimplePesticideApp: the tables
\* The Chinese strings of the source are written in pinyin.

\* LABEL_MAP: English class name -> Chinese name
LABEL_MAP ==
    ("green-leafhopper" :> "lvse-yechan") @@     \* 绿色叶蝉
    ("rice-bug" :> "daochun") @@                 \* 稻蝽
    ("leaf-folder" :> "juanyechong") @@          \* 卷叶虫
    ("stem-borer" :> "jingming") @@              \* 茎螟
    ("whorl-maggot" :> "yeqiaoqu")               \* 叶鞘蛆

\* PESTICIDE_DB: English class name -> <<pesticide, ml per mu>>
PESTICIDE_DB ==
    ("green-leafhopper" :> <<"bichonglin", 30>>) @@          \* 吡虫啉
    ("rice-bug" :> <<"lvqingjuzhi", 50>>) @@                 \* 氯氰菊酯
    ("leaf-folder" :> <<"jiaweiyan", 40>>) @@                \* 甲维盐
    ("stem-borer" :> <<"lvchongbenjiaxianan", 60>>) @@       \* 氯虫苯甲酰胺
    ("whorl-maggot" :> <<"biyatong", 35>>)                   \* 吡蚜酮

\* the default of PESTICIDE_DB.get: ["未知", 0]
UnknownPesticide == <<"weizhi", 0>>

\* dict.get(key, default)
Get(dict, key, default) == IF key \in DOMAIN dict THEN dict[key] ELSE default

\* self.model.names[cls] of the boxes of an image: the loaded .pt file
\* decides the class names, and they need not be keys of the two tables
ClassNames == {"rice-bug", "brown-planthopper"}

RECURSIVE SeqsUpTo(_, _)
SeqsUpTo(S, n) ==
    IF n = 0 THEN {<<>>}
    ELSE LET shorter == SeqsUpTo(S, n - 1)
         IN  shorter \cup {Append(q, x) : q \in shorter, x \in S}

\* the images cv2.imread can return
Images == {[loaded |-> TRUE, boxes |-> b] : b \in SeqsUpTo(ClassNames, MaxBoxes)}

\* --------------------------------------- SimplePesticideApp: run_detection

\* the record run_detection appends for one box (lines 135-146)
PestRecord(eng_label) ==
    LET entry == Get(PESTICIDE_DB, eng_label, UnknownPesticide)
    IN  [english |-> eng_label,
         chinese |-> Get(LABEL_MAP, eng_label, eng_label),
         pesticide |-> entry[1],
         base_dosage |-> entry[2],
         count |-> 1]

\* the for loop over results[0].boxes: one append per box
RECURSIVE AppendBoxes(_, _)
AppendBoxes(data, boxes) ==
    IF boxes = <<>> THEN data
    ELSE AppendBoxes(Append(data, PestRecord(Head(boxes))), Tail(boxes))

\* the index of key in pest_dict (a dict keeps insertion order), 0 if absent
KeyIndex(pest_dict, key) ==
    IF \E i \in DOMAIN pest_dict : pest_dict[i].english = key
    THEN CHOOSE i \in DOMAIN pest_dict : pest_dict[i].english = key
    ELSE 0

\* one turn of the aggregation loop (lines 151-155)
pest_dict_put_nocount(pest_dict, item) ==
    IF KeyIndex(pest_dict, item.english) # 0 THEN pest_dict
    ELSE Append(pest_dict, item)

pest_dict_put(pest_dict, item) ==
    LET i == KeyIndex(pest_dict, item.english)
    IN  IF i # 0
        THEN [pest_dict EXCEPT ![i].count = @ + 1]
        ELSE Append(pest_dict, item)

\* the aggregation loop and list(pest_dict.values())
RECURSIVE Aggregate(_, _)
Aggregate(pest_dict, items) ==
    IF items = <<>> THEN pest_dict
    ELSE Aggregate(pest_dict_put(pest_dict, Head(items)), Tail(items))

\* self.pest_data.clear() (line 132)
pest_data_kept(data) == data

pest_data_clear(data) == <<>>

\* pest_data after lines 132-157, for the boxes of one result
Rebuild(data, boxes) ==
    Aggregate(<<>>, AppendBoxes(pest_data_clear(data), boxes))

\* --------------------------------- SimplePesticideApp: update_recommendation
\* A text is the sequence of its characters.  A float is kept exactly:
\* kind "num" is num/den (den > 0), kind "inf" is num times infinity
\* (num = 1 or -1), kind "nan" is the IEEE not-a-number.

Digits == {"0", "1", "2", "3", "4", "5", "6", "7", "8", "9"}

DigitValue ==
    ("0" :> 0) @@ ("1" :> 1) @@ ("2" :> 2) @@ ("3" :> 3) @@ ("4" :> 4) @@
    ("5" :> 5) @@ ("6" :> 6) @@ ("7" :> 7) @@ ("8" :> 8) @@ ("9" :> 9)

Num(n, d) == [kind |-> "num", num |-> n, den |-> d]
Inf(sign) == [kind |-> "inf", num |-> sign, den |-> 1]
NaN == [kind |-> "nan", num |-> 0, den |-> 1]

\* the int 1 that update_recommendation uses when it has no parsed value
DefaultArea == Num(1, 1)

\* the value of the digits of a decimal literal, its point left out
RECURSIVE DigitsValue(_, _)
DigitsValue(acc, text) ==
    IF text = <<>> THEN acc
    ELSE IF Head(text) = "." THEN DigitsValue(acc, Tail(text))
    ELSE DigitsValue(10 * acc + DigitValue[Head(text)], Tail(text))

\* 10 to the number of digits after the point
RECURSIVE Scale(_, _)
Scale(text, seen) ==
    IF text = <<>> THEN 1
    ELSE IF Head(text) = "." THEN Scale(Tail(text), TRUE)
    ELSE (IF seen THEN 10 ELSE 1) * Scale(Tail(text), seen)

\* digits with at most one point and at least one digit
IsDecimal(text) ==
    /\ \A i \in DOMAIN text : text[i] \in Digits \cup {"."}
    /\ Cardinality({i \in DOMAIN text : text[i] = "."}) <= 1
    /\ \E i \in DOMAIN text : text[i] \in Digits

\* Python's float(text) for a non-empty text over signs, digits, the point
\* and lower-case letters: [ok |-> FALSE] stands for ValueError.  (The
\* exponent, spaces, underscores and upper case are left out of the texts.)
float(text) ==
    LET signed == Head(text) \in {"+", "-"}
        sign == IF Head(text) = "-" THEN -1 ELSE 1
        body == IF signed THEN Tail(text) ELSE text
    IN  IF body = <<"n", "a", "n">> THEN [ok |-> TRUE, value |-> NaN]
        ELSE IF body \in {<<"i", "n", "f">>,
                          <<"i", "n", "f", "i", "n", "i", "t", "y">>}
        THEN [ok |-> TRUE, value |-> Inf(sign)]
        ELSE IF IsDecimal(body)
        THEN [ok |-> TRUE,
              value |-> Num(sign * DigitsValue(0, body), Scale(body, FALSE))]
        ELSE [ok |-> FALSE, value |-> NaN]

\* lines 165-169: float(area_text) if area_text else 1, except: 1
area_of(text) ==
    IF text = <<>> THEN DefaultArea
    ELSE IF float(text).ok THEN float(text).value
    ELSE DefaultArea

\* base_dosage * area (line 180), base_dosage an int that is not negative
Times(base_dosage, area) ==
    CASE area.kind = "num" -> Num(base_dosage * area.num, area.den)
      [] area.kind = "inf" -> IF base_dosage = 0 THEN NaN ELSE area
      [] OTHER -> NaN

\* {total_dosage:.1f}: the tenths nearest to the value, a tie going to the
\* even tenth; "inf" and "nan" are printed as such
Tenths(v) ==
    LET n == IF v.num < 0 THEN -v.num ELSE v.num
        q == (10 * n) \div v.den
        r == (10 * n) % v.den
        up == 2 * r > v.den \/ (2 * r = v.den /\ q % 2 = 1)
        t == IF up THEN q + 1 ELSE q
    IN  IF v.num < 0 THEN -t ELSE t

Format1f(v) ==
    IF v.kind = "num" THEN [kind |-> "num", tenths |-> Tenths(v)]
    ELSE [kind |-> v.kind, tenths |-> 0]

\* the five lines update_recommendation writes for one record
ReportEntry(item, area) ==
    [chinese |-> item.chinese,
     pesticide |-> item.pesticide,
     base_dosage |-> item.base_dosage,
     total_dosage |-> Times(item.base_dosage, area),
     total_text |-> Format1f(Times(item.base_dosage, area))]

\* what update_recommendation puts in result_label (lines 171-187)
report_unguarded(data, text) ==
    [kind |-> "report",
     lines |-> [i \in DOMAIN data |-> ReportEntry(data[i], area_of(text))]]

report(data, text) ==
    IF data = <<>> THEN [kind |-> "no_pests", lines |-> <<>>]
    ELSE [kind |-> "report",
          lines |-> [i \in DOMAIN data |-> ReportEntry(data[i], area_of(text))]]

\* the texts the user leaves in area_input
AreaTexts ==
    {<<>>, <<"2">>, <<"0">>, <<"-", "3">>, <<"1", ".", "5">>,
     <<"a", "b", "c">>, <<"n", "a", "n">>}

\* ----------------------------------------- SimplePesticideApp: the handlers

\* load_model (lines 86-98), a file chosen: YOLO(file_name) returns or raises
rec_load_model ==
    \/ /\ rec_model' = 1
       /\ select_image_btn' = TRUE
       /\ rec_status' = "model_loaded"
       /\ UNCHANGED <<current_img, preview, run_detection_btn, pest_data,
                      area_text, result_label, model_calls, last_boxes>>
    \/ /\ rec_status' = "load_model_failed"
       /\ UNCHANGED <<rec_model, select_image_btn, current_img, preview,
                      run_detection_btn, pest_data, area_text, result_label,
                      model_calls, last_boxes>>

\* select_image (lines 100-113), a file chosen: cv2.imread returns an image,
\* or None for a file it cannot decode, and then display_image raises
select_image ==
    /\ select_image_btn
    /\ \/ \E img \in Images :
             /\ current_img' = img
             /\ preview' = [kind |-> "image", boxes |-> img.boxes]
             /\ run_detection_btn' = TRUE
             /\ rec_status' = "image_loaded"
       \/ /\ current_img' = None
          /\ rec_status' = "load_image_failed"
          /\ UNCHANGED <<preview, run_detection_btn>>
    /\ UNCHANGED <<rec_model, select_image_btn, pest_data, area_text,
                   result_label, model_calls, last_boxes>>

\* update_recommendation (lines 164-187) leaves pest_data as it is
update_recommendation(data) ==
    /\ result_label' = report(data, area_text')
    /\ pest_data' = data

\* run_detection (lines 122-162): the model call returns the boxes of the
\* image, or raises and the handler reports the failure
run_detection ==
    /\ run_detection_btn
    /\ rec_model # NoModel /\ current_img # None
    /\ model_calls < MaxCalls
    /\ model_calls' = model_calls + 1
    /\ \/ /\ last_boxes' = current_img.boxes
          /\ preview' = [kind |-> "annotated", boxes |-> current_img.boxes]
          /\ area_text' = area_text
          /\ update_recommendation(Rebuild(pest_data, current_img.boxes))
          /\ rec_status' = "detected"
       \/ /\ rec_status' = "detect_failed"
          /\ UNCHANGED <<last_boxes, preview, area_text, pest_data,
                         result_label>>
    /\ UNCHANGED <<rec_model, current_img, select_image_btn,
                   run_detection_btn>>

\* area_input.textChanged (lines 60-63): the text changed to another one
area_textChanged_redetect ==
    \E text \in AreaTexts :
        /\ text # area_text
        /\ area_text' = text
        /\ IF rec_model # NoModel /\ current_img # None /\ model_calls < MaxCalls
           THEN /\ model_calls' = model_calls + 1
                /\ last_boxes' = current_img.boxes
                /\ update_recommendation(Rebuild(pest_data, current_img.boxes))
           ELSE /\ update_recommendation(pest_data)
                /\ UNCHANGED <<model_calls, last_boxes>>
        /\ UNCHANGED <<rec_model, current_img, preview, rec_status,
                       select_image_btn, run_detection_btn>>

area_textChanged ==
    \E text \in AreaTexts :
        /\ text # area_text
        /\ area_text' = text
        /\ update_recommendation(pest_data)
        /\ UNCHANGED <<rec_model, current_img, preview, rec_status,
                       select_image_btn, run_detection_btn, model_calls,
                       last_boxes>>

\* The recommendation window runs alone.
RecNext ==
    \/ rec_load_model /\ UNCHANGED <<mainVars, statsVars>>
    \/ select_image /\ UNCHANGED <<mainVars, statsVars>>
    \/ run_detection /\ UNCHANGED <<mainVars, statsVars>>
    \/ area_textChanged /\ UNCHANGED <<mainVars, statsVars>>

RecSpec == Start /\ [][RecNext]_vars

\* ------------------------------------- extract_stats on the boxes of a frame

\* the boxes a result can hold (class index, confidence in percent)
BoxKinds == {Box(0, 90), Box(0, 60), Box(1, 80), Box(1, 30)}

\* a result whose boxes are any sequence of at most MaxBoxes boxes
StatsInit ==
    /\ stats_in \in SeqsUpTo(BoxKinds, MaxBoxes)
    /\ stats_out = <<>>

\* stats = self.extract_stats(results[0])
extract_stats_call ==
    /\ stats_out = <<>>
    /\ stats_out' = <<extract_stats([src |-> "camera", id |-> 0, boxes |-> stats_in])>>
    /\ UNCHANGED stats_in

StatsNext == extract_stats_call /\ UNCHANGED <<mainVars, recVars>>

StatsStart == Init /\ RecInit /\ StatsInit

StatsSpec == StatsStart /\ [][StatsNext]_vars

\* ------------------------------------------------------------------ claims

\* a VideoWorker whose run() has not returned: its run loop is active
Running(w) == workers[w].pc # "done"

\* the inference calls in flight against model instance m: the model call
\* of a run loop (line 35) and that of process_single_image (line 384)
InFlight(m) ==
    Cardinality({w \in WorkerIds : workers[w].pc = "infer" /\ workers[w].model = m})
    + (IF ui = "image_infer" /\ model = m THEN 1 ELSE 0)

\* C1: over every sequence of start and stop clicks at most one VideoWorker
\* run loop is active and at most one capture handle is open, self.worker
\* refers to the active worker, and start is unavailable (startBtn disabled)
\* for as long as it is active, so that no start reaches a running stream.
C1_SingleWorker ==
    /\ Cardinality({w \in WorkerIds : Running(w)}) <= 1
    /\ Cardinality({w \in WorkerIds : workers[w].cap = "open"}) <= 1
    /\ \A w \in WorkerIds : Running(w) => worker = w /\ ~startBtn

\* a streaming run started after an earlier run had read frames and been
\* stopped: it has not opened its source yet, and start is disabled
C1_Witness ==
    /\ worker # NoWorker
    /\ workers[worker].pc = "start"
    /\ acquired >= 1
    /\ ~startBtn

\* C2: no two model calls on the same model instance are in flight at once,
\* whatever the interleaving of the run loop with start_detection (streaming
\* or single image) and stop_detection.
C2_OneInference == \A m \in 1..MaxModels : InFlight(m) <= 1

\* a single-image model call in flight after a streaming run that has
\* itself called the model and was stopped
C2_Witness ==
    /\ ui = "image_infer"
    /\ worker = NoWorker
    /\ Len(delivered) >= 1
    /\ InFlight(model) = 1

\* C3, in every state: a frame read or a model call is in flight only on an
\* open capture handle.
C3_ReadOnOpenHandle ==
    \A w \in WorkerIds : workers[w].pc \in {"read", "infer"} => workers[w].cap = "open"

\* C3, in every step: stop only clears the running flag; the handle is
\* released only by run() itself, at line 40, which it reaches from the loop
\* head or from a failed read and never from a read or model call in flight;
\* and when stop_detection returns, run() has returned and the handle has
\* been released.
C3_Step ==
    /\ (ui = "idle" /\ ui' = "stop_wait") =>
          workers' = [workers EXCEPT ![worker].running = FALSE]
    /\ \A w \in WorkerIds \cap DOMAIN workers' :
          /\ (workers[w].cap # "released" /\ workers'[w].cap = "released") =>
                workers[w].pc = "release"
          /\ (workers[w].pc # "release" /\ workers'[w].pc = "release") =>
                \/ workers[w].pc = "loop"
                \/ workers[w].pc = "read" /\ workers'[w].lastRead # "frame"
    /\ (ui = "stop_wait" /\ ui' = "idle") =>
          /\ workers[worker].pc = "done"
          /\ workers[worker].cap = "released"
          /\ worker' = NoWorker

\* C3: stop is cooperative and waits for the run loop.
C3_StopWaits == []C3_ReadOnOpenHandle /\ [][C3_Step]_vars

\* stop_detection is blocked in wait() while the model call is in flight on
\* the still open handle
C3_Witness ==
    /\ ui = "stop_wait"
    /\ worker # NoWorker
    /\ workers[worker].pc = "infer"
    /\ workers[worker].cap = "open"
    /\ ~workers[worker].running

\* the program has nothing left to do until the user acts
Quiescent == Alive /\ ~ENABLED SystemStep

\* the orchestrator is Idle: no worker registered and start available
Idle == worker = NoWorker /\ startBtn

\* C4: once a stream has ended at end-of-stream and the program has done all
\* it does by itself, the orchestrator is Idle again (no worker registered,
\* start accepted), no stop click being needed.
C4_EndOfStreamReturnsToIdle ==
    (Quiescent /\ \E w \in WorkerIds :
                     workers[w].lastRead = "eos" /\ workers[w].pc = "done")
        => Idle

\* C5: no way out of the run loop leaves the capture handle open: a worker
\* whose run() has ended, by returning or by the model call raising, has
\* released its handle.
C5_EveryExitReleases ==
    \A w \in WorkerIds :
        workers[w].pc \in {"done", "raised"} => workers[w].cap = "released"

\* C6: when the frame source could not be opened, the failed start leaves the
\* orchestrator Idle with start available: once the program has done all it
\* does by itself, no worker is registered and startBtn is enabled.
C6_OpenFailureReturnsToIdle ==
    (Quiescent /\ \E w \in WorkerIds :
                     ~workers[w].opened /\ workers[w].pc = "done")
        => Idle

\* C7, in every state: no VideoWorker exists whose model is unset.
C7_WorkersHaveModel == \A w \in WorkerIds : workers[w].model # NoModel

\* C7, in every step: start_detection without a loaded model shows the
\* "load a model first" warning and changes nothing else: no worker, no
\* frame source, no model call, the buttons and the status as before.
C7_Step ==
    (start_detection /\ model = NoModel) =>
        /\ message' = "no_model"
        /\ UNCHANGED <<app, ui, model, file_path, inputCombo, startBtn, stopBtn,
                       status_label, image_label, stats_text, worker, workers,
                       queue, acquired, delivered>>

\* C7: start without a model fails and changes nothing.
C7_NoModelNoStart == []C7_WorkersHaveModel /\ [][C7_Step]_vars

\* start_detection was refused for want of a model: the warning is up and
\* the orchestrator is as it was at startup
C7_Witness ==
    /\ message = "no_model"
    /\ model = NoModel
    /\ worker = NoWorker
    /\ workers = <<>>
    /\ acquired = 0
    /\ startBtn
    /\ status_label = "ready"

\* C8: stop_detection with no worker registered is a no-op: the worker
\* reference, the availability of start and stop and the status are after
\* the call what they were before it.
C8_IdleStopIsNoOp ==
    [][(stop_detection /\ worker = NoWorker) =>
          UNCHANGED <<worker, startBtn, stopBtn, status_label>>]_vars

\* C9: the pairs display_image_and_stats receives are in acquisition order
\* (strictly increasing frame ids, each of a frame that was read), and the
\* stats of a pair are those of the frame delivered with it.
C9_DeliveredInOrder ==
    /\ \A i, j \in DOMAIN delivered :
          i < j => delivered[i].frame.id < delivered[j].frame.id
    /\ \A i \in DOMAIN delivered :
          /\ delivered[i].frame.id \in 1..acquired
          /\ delivered[i].stats = extract_stats(delivered[i].frame)

\* two pairs with different statistics have been delivered
C9_Witness ==
    /\ Len(delivered) >= 2
    /\ delivered[1].stats # delivered[2].stats

\* C10: a frame read that fails on a corrupt frame does not end the stream:
\* the run loop goes back to its head with the running flag as it was.
C10_CorruptFrameSkipped ==
    [][\A w \in WorkerIds \cap DOMAIN workers' :
          (workers[w].pc = "read" /\ workers'[w].pc # "read"
              /\ workers'[w].lastRead = "corrupt")
          => (workers'[w].pc = "loop" /\ workers'[w].running = workers[w].running)]_vars

\* ------------------------------------------- claims: the recommendation window

\* the number of boxes of a result that carry the class name label
Occurrences(boxes, label) ==
    Cardinality({i \in DOMAIN boxes : boxes[i] = label})

\* the sum of the count fields of a pest_data list
RECURSIVE CountSum(_)
CountSum(data) ==
    IF data = <<>> THEN 0 ELSE Head(data).count + CountSum(Tail(data))

\* C11: after every detection run pest_data has at most one record per
\* class name, the count of each record is the number of boxes of the run
\* that carry its name (so it is at least 1), and the counts add up to the
\* number of boxes, whatever the order of the boxes.
C11_OneRecordPerLabel ==
    /\ \A i, j \in DOMAIN pest_data :
           pest_data[i].english = pest_data[j].english => i = j
    /\ \A i \in DOMAIN pest_data :
           /\ pest_data[i].count >= 1
           /\ pest_data[i].count = Occurrences(last_boxes, pest_data[i].english)
    /\ CountSum(pest_data) = Len(last_boxes)

\* a run on three boxes, the first and the third of the same class
C11_Witness ==
    /\ Len(last_boxes) = 3
    /\ last_boxes[1] = last_boxes[3] /\ last_boxes[1] # last_boxes[2]
    /\ Len(pest_data) = 2
    /\ pest_data[1].count = 2 /\ pest_data[2].count = 1

\* C12: every entry of the report has total_dosage = base_dosage * area,
\* where area is the value of the area text when the text is a valid
\* positive number, and 1 when the text is empty, not a number, or a value
\* that is not positive.
C12_DosageScaling ==
    LET parsed == float(area_text)
        area == IF area_text # <<>> /\ parsed.ok /\ parsed.value.kind = "num"
                   /\ parsed.value.num > 0
                THEN parsed.value
                ELSE DefaultArea
    IN  result_label.kind = "report" =>
            \A i \in DOMAIN result_label.lines :
                result_label.lines[i].total_dosage
                    = Times(pest_data[i].base_dosage, area)

\* C13: a box whose class name is not a key of PESTICIDE_DB still gives one
\* record, with the "unknown" pesticide, base dosage 0 and, for every area
\* text, total dosage 0; its displayed name is the class name itself when
\* the name is not a key of LABEL_MAP either.
C13_UnknownLabel ==
    \A label \in ClassNames \ DOMAIN PESTICIDE_DB :
        Occurrences(last_boxes, label) > 0 =>
            \E i \in DOMAIN pest_data :
                /\ pest_data[i].english = label
                /\ pest_data[i].pesticide = UnknownPesticide[1]
                /\ pest_data[i].base_dosage = 0
                /\ label \notin DOMAIN LABEL_MAP => pest_data[i].chinese = label
                /\ result_label.kind = "report" =>
                       /\ result_label.lines[i].total_dosage.kind = "num"
                       /\ result_label.lines[i].total_dosage.num = 0

\* C14: a change of the area text recomputes the report from the stored
\* pest_data alone: the step makes no model call and leaves pest_data, the
\* current image and the model as they were, edit after edit.
C14_AreaEditReusesData ==
    [][area_text' # area_text =>
          /\ model_calls' = model_calls
          /\ pest_data' = pest_data
          /\ current_img' = current_img
          /\ rec_model' = rec_model
          /\ last_boxes' = last_boxes
          /\ result_label' = report(pest_data, area_text')]_vars

\* after one detection run that found pests, the area was edited and the
\* report shows a total for the new area
C14_Witness ==
    /\ model_calls = 1
    /\ pest_data # <<>>
    /\ area_text = <<"1", ".", "5">>
    /\ result_label.kind = "report"
    /\ result_label.lines[1].total_dosage
           = Times(pest_data[1].base_dosage, Num(15, 10))

\* C15: every detection run rebuilds pest_data from the boxes of that run
\* alone: after the run the records are exactly the class names found in
\* the image just analysed, each with the number of its boxes in that
\* image, whatever earlier runs stored; and between runs (image selections
\* included) pest_data stays as the latest run left it.
C15_RebuiltEachRun ==
    [][/\ (model_calls' # model_calls /\ rec_status' = "detected") =>
             /\ {pest_data'[i].english : i \in DOMAIN pest_data'}
                    = {current_img.boxes[k] : k \in DOMAIN current_img.boxes}
             /\ Len(pest_data')
                    = Cardinality({current_img.boxes[k] : k \in DOMAIN current_img.boxes})
             /\ \A i \in DOMAIN pest_data' :
                    pest_data'[i].count
                        = Occurrences(current_img.boxes, pest_data'[i].english)
       /\ ~(model_calls' # model_calls /\ rec_status' = "detected") =>
             pest_data' = pest_data]_vars

\* a second detection run has just ended, on an image with a single box,
\* and pest_data holds that one record
C15_Witness ==
    /\ model_calls = 2
    /\ rec_status = "detected"
    /\ Len(last_boxes) = 1
    /\ Len(pest_data) = 1 /\ pest_data[1].count = 1

\* C16: when the detection found no box, result_label shows the "no pests
\* detected" text for every area text, never a report without entries; and
\* that text is shown only while pest_data is empty.
C16_NoPestsSentinel ==
    /\ (rec_status = "detected" /\ last_boxes = <<>>) =>
           result_label.kind = "no_pests"
    /\ result_label.kind = "report" => result_label.lines # <<>>
    /\ result_label.kind = "no_pests" => pest_data = <<>>
    /\ (result_label.kind # "placeholder" /\ pest_data = <<>>) =>
           result_label.kind = "no_pests"

\* a detection run found nothing, and the area was then edited to a text
\* that is no number
C16_Witness ==
    /\ rec_status = "detected"
    /\ model_calls > 0
    /\ last_boxes = <<>>
    /\ area_text = <<"a", "b", "c">>
    /\ result_label.kind = "no_pests"

\* --------------------------------------------------- claims: frame statistics

\* C17: for every sequence D of boxes of one frame, extract_stats returns
\* total_objects = len(D), class_distribution holds exactly the class names
\* that occur in D, each with the number of its boxes, so that its counts
\* add up to len(D); and avg_confidence is 0 when D is empty.
C17_StatsCountEveryBox ==
    stats_out # <<>> =>
        LET stats == stats_out[1]
            names == {ModelNames[stats_in[i].cls] : i \in DOMAIN stats_in}
        IN  /\ stats.total_objects = Len(stats_in)
            /\ SumValues(stats.class_distribution) = Len(stats_in)
            /\ DOMAIN stats.class_distribution = names
            /\ \A name \in names :
                   stats.class_distribution[name]
                       = Cardinality({i \in DOMAIN stats_in :
                                        ModelNames[stats_in[i].cls] = name})
            /\ stats_in = <<>> => stats.avg_confidence[1] = 0

\* the statistics of a frame with three boxes of two classes
C17_Witness ==
    /\ stats_out # <<>>
    /\ Len(stats_in) = 3
    /\ stats_out[1].total_objects = 3
    /\ DOMAIN stats_out[1].class_distribution = {"rice-bug", "stem-borer"}
    /\ stats_out[1].class_distribution["rice-bug"] = 2

\* ------------------------------------------------- claims: the main window

\* C18: a single-image detection makes its one model call without a
\* worker and without touching the start and stop buttons, and when it
\* ends the statistics panel shows the statistics of the image just
\* detected, not those of an earlier frame nor the placeholder.
C18_SingleImagePublishesStats ==
    [][(ui = "image_infer" /\ ui' = "idle") =>
          /\ worker' = worker /\ workers' = workers
          /\ startBtn' = startBtn /\ stopBtn' = stopBtn
          /\ stats_text' = StatsText(extract_stats(image_label'))]_vars

\* C20: once an annotated image has been displayed (by a single-image
\* detection or by a streaming frame), save_result does not answer "no
\* result to save": it writes an image, the one displayed most recently.
C20_SaveAfterDetection ==
    [][(/\ image_label # NoFrame
        /\ message' # message
        /\ message' \in {"nothing_to_save", "saved"}) =>
           (message' = "saved" /\ last_image = image_label)]_vars

====
